---- MODULE Spec2Model ----
(***************************************************************************)
(* Onion-routing overlay: registry, onion routers and users.               *)
(*                                                                         *)
(* A JavaScript string is a sequence of symbols.  A symbol is a character  *)
(* [k |-> "c", v |-> code point] or a base64 blob produced by the crypto   *)
(* layer (an RSA-OAEP ciphertext, an AES-CBC initialisation vector, an     *)
(* AES-CBC ciphertext, an exported key), which stands for as many base64   *)
(* characters as Width gives it.  Encryption is symbolic: a ciphertext     *)
(* opens only with the matching key.                                       *)
(***************************************************************************)
EXTENDS Integers, Sequences, FiniteSets, TLC

(***************************************************************************)
(* Bounds of the model.                                                    *)
(***************************************************************************)
\* routers 0 .. NumRouters-1 may be launched
NumRouters == 3
\* users 0 .. NumUsers-1 are launched
NumUsers == 2
\* calls of /registerNode made by somebody other than a launching router
MaxExtraRegs == 1

(***************************************************************************)
(* Program constants.                                                      *)
(***************************************************************************)
BASE_USER_PORT == 3000
BASE_ONION_ROUTER_PORT == 4000
modulusLength == 2048
ivLength == 16

RouterIds == 0 .. (NumRouters - 1)
UserIds == 0 .. (NumUsers - 1)

(***************************************************************************)
(* Strings.                                                                *)
(***************************************************************************)
Ch(cp) == [k |-> "c", v |-> cp]
Byte(b) == [k |-> "b", v |-> b]
\* part of a blob that a slice has cut through
Frag == [k |-> "frag"]
\* null / undefined where a string is expected
Null == <<[k |-> "null"]>>
\* a rejected promise / thrown exception in place of a string result
Throw == <<[k |-> "throw"]>>
\* Number.NaN, and null where a number is expected
NaN == -1
NullNum == -2

IsDigit(sym) == sym.k = "c" /\ sym.v >= 48 /\ sym.v <= 57

\* base64 length of n bytes: Buffer.toString("base64")
B64Len(n) == 4 * ((n + 2) \div 3)
\* AES-CBC with PKCS#7 padding: n bytes encrypt to the next multiple of 16
AesLen(n) == 16 * ((n \div 16) + 1)

RECURSIVE Width(_), ByteLen(_)
\* number of UTF-16 code units (= characters here) a symbol stands for
Width(sym) ==
  CASE sym.k = "rsa" -> B64Len(modulusLength \div 8)
    [] sym.k = "iv" -> B64Len(ivLength)
    [] sym.k = "aes" -> B64Len(sym.len)
    [] sym.k = "raw" -> B64Len(32)
    [] OTHER -> 1
ByteLen(bytes) ==
  IF bytes = <<>> THEN 0 ELSE Width(Head(bytes)) + ByteLen(Tail(bytes))

\* String.prototype.length
StrLen(s) == ByteLen(s)

RECURSIVE SliceRec(_, _, _, _)
SliceRec(s, off, a, b) ==
  IF s = <<>> THEN <<>>
  ELSE LET hi == off + Width(Head(s))
           rest == SliceRec(Tail(s), hi, a, b)
       IN  IF hi <= a \/ off >= b THEN rest
           ELSE IF a <= off /\ hi <= b THEN <<Head(s)>> \o rest
           ELSE <<Frag>> \o rest
\* String.prototype.slice(a, b) and slice(a), for 0 <= a <= b
Slice(s, a, b) == SliceRec(s, 0, a, b)
SliceFrom(s, a) == SliceRec(s, 0, a, StrLen(s))

RECURSIVE ToDigits(_)
\* `${n}` for an integer n >= 0
ToDigits(n) ==
  IF n < 10 THEN <<Ch(48 + n)>> ELSE ToDigits(n \div 10) \o <<Ch(48 + (n % 10))>>

\* variant: no padding
PadStartNone(s, targetLength, pad) == s

RECURSIVE PadStart(_, _, _)
\* String.prototype.padStart(targetLength, pad) for a one-character pad
PadStart(s, targetLength, pad) ==
  IF StrLen(s) >= targetLength THEN s ELSE PadStart(<<pad>> \o s, targetLength, pad)

\* variant: the address is never understood
ParseIntNaN(s) == NaN
RECURSIVE ParseDigits(_, _)
ParseDigits(s, acc) ==
  IF s = <<>> \/ ~IsDigit(Head(s)) THEN acc
  ELSE ParseDigits(Tail(s), 10 * acc + (Head(s).v - 48))
\* parseInt(s, 10) on a string without sign or leading blanks
ParseInt(s) ==
  IF s = <<>> \/ ~IsDigit(Head(s)) THEN NaN ELSE ParseDigits(s, 0)

RECURSIVE TextEncode(_)
\* new TextEncoder().encode(s): UTF-8; a blob's base64 characters are ASCII
TextEncode(s) ==
  IF s = <<>> THEN <<>>
  ELSE LET c == Head(s)
           enc == IF c.k # "c" THEN <<c>>
                  ELSE IF c.v < 128 THEN <<Byte(c.v)>>
                  ELSE IF c.v < 2048
                       THEN <<Byte(192 + (c.v \div 64)), Byte(128 + (c.v % 64))>>
                  ELSE <<Byte(224 + (c.v \div 4096)),
                         Byte(128 + ((c.v \div 64) % 64)),
                         Byte(128 + (c.v % 64))>>
       IN  enc \o TextEncode(Tail(s))

IsCont(bytes, i) ==
  Len(bytes) >= i /\ bytes[i].k = "b" /\ bytes[i].v >= 128 /\ bytes[i].v < 192

RECURSIVE TextDecode(_)
\* new TextDecoder().decode(bytes): UTF-8, U+FFFD for a malformed sequence
TextDecode(bytes) ==
  IF bytes = <<>> THEN <<>>
  ELSE LET b == Head(bytes) IN
       IF b.k # "b" THEN <<b>> \o TextDecode(Tail(bytes))
       ELSE IF b.v < 128 THEN <<Ch(b.v)>> \o TextDecode(Tail(bytes))
       ELSE IF b.v >= 192 /\ b.v < 224 /\ IsCont(bytes, 2)
            THEN <<Ch((b.v - 192) * 64 + (bytes[2].v - 128))>>
                 \o TextDecode(SubSeq(bytes, 3, Len(bytes)))
       ELSE IF b.v >= 224 /\ b.v < 240 /\ IsCont(bytes, 2) /\ IsCont(bytes, 3)
            THEN <<Ch((b.v - 224) * 4096 + (bytes[2].v - 128) * 64 + (bytes[3].v - 128))>>
                 \o TextDecode(SubSeq(bytes, 4, Len(bytes)))
       ELSE <<Ch(65533)>> \o TextDecode(Tail(bytes))

(***************************************************************************)
(* crypto.ts                                                               *)
(***************************************************************************)
\* variant: one key pair for all routers
generateSameKeyPair(n) ==
  [publicKey |-> [pair |-> 0, prv |-> FALSE], privateKey |-> [pair |-> 0, prv |-> TRUE]]
\* the key pair of router n is pair n; a CryptoKey is [pair, private?]
generateRsaKeyPair(n) ==
  [publicKey |-> [pair |-> n, prv |-> FALSE], privateKey |-> [pair |-> n, prv |-> TRUE]]
exportPubKey(key) == <<[k |-> "spki", pair |-> key.pair]>>
exportPrvKey(key) == <<[k |-> "pkcs8", pair |-> key.pair]>>
importPubKey(strKey) == [pair |-> strKey[1].pair, prv |-> FALSE]
importPrvKey(strKey) == [pair |-> strKey[1].pair, prv |-> TRUE]

\* a symmetric CryptoKey is its number; createRandomSymmetricKey draws it
exportSymKey(key) == <<[k |-> "raw", id |-> key]>>
importSymKey(strKey) == strKey[1].id

rsaEncrypt(b64Data, strPublicKey) ==
  <<[k |-> "rsa", pair |-> importPubKey(strPublicKey).pair, data |-> b64Data]>>

\* Throw when data is not one whole ciphertext made for this private key
rsaDecrypt(data, privateKey) ==
  IF Len(data) = 1 /\ data[1].k = "rsa" /\ data[1].pair = privateKey.pair
  THEN data[1].data
  ELSE Throw

\* AES-CBC decryption xors the first block with the IV: byte j of the
\* plaintext with the lowest bit changed, when the IV that comes with the
\* ciphertext differs from the one used in that bit of byte j (0: no byte).
\* A changed character inside an RSA ciphertext leaves one that no key opens.
XorFirstBlock(bytes, j) ==
  IF j = 0 \/ j > Len(bytes) THEN bytes
  ELSE [bytes EXCEPT ![j] =
          IF @.k = "b" THEN (IF @.v % 2 = 0 THEN Byte(@.v + 1) ELSE Byte(@.v - 1))
          ELSE IF @.k = "rsa" THEN [@ EXCEPT !.pair = -1]
          ELSE @]

\* iv is the value crypto.getRandomValues draws; flip names the byte of the
\* IV text that was changed since (0: none)
symEncrypt(key, iv, data) ==
  LET dataBuffer == TextEncode(data) IN
  <<[k |-> "iv", n |-> iv, flip |-> 0],
    [k |-> "aes", key |-> key, iv |-> iv, bytes |-> dataBuffer,
     len |-> AesLen(ByteLen(dataBuffer))]>>

symDecrypt(strKey, encryptedData) ==
  LET key == importSymKey(strKey)
      iv == Slice(encryptedData, 0, 24)
      encryptedDataBuffer == SliceFrom(encryptedData, 24)
  IN  IF /\ Len(iv) = 1 /\ iv[1].k = "iv"
         /\ Len(encryptedDataBuffer) = 1 /\ encryptedDataBuffer[1].k = "aes"
         /\ encryptedDataBuffer[1].key = key
         /\ encryptedDataBuffer[1].iv = iv[1].n
      THEN TextDecode(XorFirstBlock(encryptedDataBuffer[1].bytes, iv[1].flip))
      ELSE Throw

(***************************************************************************)
(* State.                                                                  *)
(***************************************************************************)
VARIABLES
  \* registry: getNodeRegistryBody.nodes
  nodes,
  \* ports on which a launched process listens
  listening,
  \* ports whose process was terminated by an unhandled rejection
  crashed,
  \* router n: its exported private key (Null until launched)
  privateKey,
  \* router n: the introspection slots
  lastReceivedEncryptedMessage,
  lastReceivedDecryptedMessage,
  lastMessageSource,
  lastMessageDestination,
  \* user u: lastReceivedMessages[userId], lastSentMessage, lastCircuit
  lastReceivedMessages,
  lastSentMessage,
  lastCircuit,
  \* busy[p]: the call whose selection loop, which never yields, holds the
  \* event loop of the process listening on port p (0: none)
  busy,
  \* calls[s]: the chain of handler activations that the s-th /sendMessage
  \* request set off: calls[s][1] is the user's /sendMessage handler and
  \* calls[s][i+1] handles the request that calls[s][i] sent with fetch
  calls,
  \* how many /sendMessage requests clients will still make, and how many
  \* /registerNode requests others than a launching router
  sendsLeft,
  regsLeft

vars == <<nodes, listening, crashed, privateKey, lastReceivedEncryptedMessage,
          lastReceivedDecryptedMessage, lastMessageSource, lastMessageDestination,
          lastReceivedMessages, lastSentMessage, lastCircuit, busy, calls,
          sendsLeft, regsLeft>>

routerVars == <<lastReceivedEncryptedMessage, lastReceivedDecryptedMessage,
                lastMessageSource, lastMessageDestination>>
userVars == <<lastReceivedMessages, lastSentMessage, lastCircuit>>

RouterPort(n) == BASE_ONION_ROUTER_PORT + n
UserPort(u) == BASE_USER_PORT + u
IsRouterPort(p) == \E n \in RouterIds : p = RouterPort(n)
IsUserPort(p) == \E u \in UserIds : p = UserPort(u)
RouterAt(p) == p - BASE_ONION_ROUTER_PORT
\* variant: every user writes the slot of user 0
UserAtFirst(p) == 0
UserAt(p) == p - BASE_USER_PORT
Ports == {RouterPort(n) : n \in RouterIds} \cup {UserPort(u) : u \in UserIds}

(***************************************************************************)
(* Inputs.                                                                 *)
(***************************************************************************)
\* the messages clients ask to send: "7é" and ""
Messages == {<<Ch(55), Ch(233)>>, <<>>}
\* the user that clients ask to send
Senders == {0}
\* the destinations clients name: the launched users, a user that was never
\* launched, and the id whose user port is the port of router 0
DestinationUserIds == (0 .. NumUsers) \cup {BASE_ONION_ROUTER_PORT - BASE_USER_PORT}
\* what somebody other than a launching router registers: an id taken by a
\* router or by none, with the public key of router 0 or 1
ExtraNodes ==
  {[nodeId |-> id, pubKey |-> exportPubKey(generateRsaKeyPair(kp).publicKey)] :
     id \in {0, NumRouters}, kp \in {0, 1}}
\* what becomes of a handler whose promise rejects: the rejection is unhandled
\* and terminates the process, or is only reported and the request never
\* answered, or the framework answers 500
ThrowOutcomes == {"crash", "hang", "error"}

(***************************************************************************)
(* Handler activations.                                                    *)
(***************************************************************************)
NoNodes == <<>>
Frame(h, at, pc, body, dest, snapshot) ==
  [h |-> h, at |-> at, pc |-> pc, body |-> body, destinationUserId |-> dest,
   nodes |-> snapshot, circuit |-> <<>>, out |-> Null, to |-> NullNum, res |-> "none"]

\* variant: a registration of an id that is present is dropped
registerNodeOnce(ns, nodeId, pubKey) ==
  IF \E i \in 1 .. Len(ns) : ns[i].nodeId = nodeId THEN ns
  ELSE Append(ns, [nodeId |-> nodeId, pubKey |-> pubKey])

\* registry /registerNode: getNodeRegistryBody.nodes.push({ nodeId, pubKey })
registerNode(ns, nodeId, pubKey) == Append(ns, [nodeId |-> nodeId, pubKey |-> pubKey])

\* JSON.parse of the registry's answer: every entry a fresh object
ParseNodes(ns) ==
  [i \in 1 .. Len(ns) |-> [nodeId |-> ns[i].nodeId, pubKey |-> ns[i].pubKey, obj |-> i]]
\* nodes[randomIndex] of an empty array
Undefined == [nodeId |-> NullNum, pubKey |-> Null, obj |-> 0]
\* variant: the membership test is missing
IncludesNever(circuit, node) == FALSE
\* Array.prototype.includes: objects are compared by identity
Includes(circuit, node) == \E i \in 1 .. Len(circuit) : circuit[i] = node
\* variant: the circuit is not reversed
NoReverse(seq) == seq
\* Array.prototype.reverse
Reverse(seq) == [i \in 1 .. Len(seq) |-> seq[Len(seq) + 1 - i]]

\* createRandomSymmetricKey() and crypto.getRandomValues(): a value drawn
\* nowhere else, for iteration i of the s-th request
createRandomSymmetricKey(s, i) == 10 * s + i
getRandomValues(s, i) == 100 * s + i

Zero == Ch(48)

RECURSIVE EncryptLoop(_, _, _, _, _)
\* user /sendMessage, the for loop: the value of messageToSend after it
EncryptLoop(circuit, i, destination, messageToSend, s) ==
  IF i > Len(circuit) THEN messageToSend
  ELSE LET node == circuit[i]
           symKey == createRandomSymmetricKey(s, i)
           messageToEncrypt == destination \o messageToSend
           nextDestination ==
             PadStart(ToDigits(BASE_ONION_ROUTER_PORT + node.nodeId), 10, Zero)
           encryptedMessage == symEncrypt(symKey, getRandomValues(s, i), messageToEncrypt)
           encryptedSymKey == rsaEncrypt(exportSymKey(symKey), node.pubKey)
       IN  EncryptLoop(circuit, i + 1, nextDestination,
                       encryptedSymKey \o encryptedMessage, s)

\* user /sendMessage: the onion for message, destinationUserId and circuit
Onion(message, destinationUserId, circuit, s) ==
  EncryptLoop(circuit, 1,
              PadStart(ToDigits(BASE_USER_PORT + destinationUserId), 10, Zero),
              message, s)

\* router /message, lines 85-88: the decrypted layer, or Throw
Peel(layer, prvKey) ==
  LET encryptedSymKey == Slice(layer, 0, 344)
      symKey == rsaDecrypt(encryptedSymKey, importPrvKey(prvKey))
      encryptedMessage == SliceFrom(layer, 344)
  IN  IF symKey = Throw THEN Throw ELSE symDecrypt(symKey, encryptedMessage)

SetFrame(s, i, f) == [calls EXCEPT ![s][i] = f]
\* frame i of call s sends a request to port p, which listens
Request(cs, s, i, f, p, body) ==
  [cs EXCEPT ![s] =
     Append([@ EXCEPT ![i] = f], Frame("message", p, "recv", body, NullNum, NoNodes))]

\* the handler of frame i of call s rejects, f being the frame at that point
Rejects(s, i, f) ==
  \E outcome \in ThrowOutcomes :
  /\ calls' = SetFrame(s, i, IF outcome = "error"
                             THEN [f EXCEPT !.pc = "done", !.res = "error"]
                             ELSE [f EXCEPT !.pc = "threw"])
  /\ IF outcome = "crash"
     THEN /\ listening' = listening \ {f.at}
          /\ crashed' = crashed \cup {f.at}
     ELSE UNCHANGED <<listening, crashed>>

\* the event loop of the process at port p is free to run a handler
Free(p) == p \in listening /\ busy[p] = 0

(***************************************************************************)
(* Operations.                                                             *)
(***************************************************************************)
Init ==
  /\ nodes = <<>>
  /\ listening = {UserPort(u) : u \in UserIds}
  /\ crashed = {}
  /\ privateKey = [n \in RouterIds |-> Null]
  /\ lastReceivedEncryptedMessage = [n \in RouterIds |-> Null]
  /\ lastReceivedDecryptedMessage = [n \in RouterIds |-> Null]
  /\ lastMessageSource = [n \in RouterIds |-> NullNum]
  /\ lastMessageDestination = [n \in RouterIds |-> NullNum]
  /\ lastReceivedMessages = [u \in UserIds |-> Null]
  /\ lastSentMessage = [u \in UserIds |-> Null]
  /\ lastCircuit = [u \in UserIds |-> <<>>]
  /\ busy = [p \in Ports |-> 0]
  /\ calls = <<>>
  /\ sendsLeft = 1
  /\ regsLeft = MaxExtraRegs

\* simpleOnionRouter(nodeId): key pair, registration, listen.  Routers are
\* launched in the order of their ids.
LaunchRouter(n) ==
  /\ privateKey[n] = Null
  /\ \A m \in RouterIds : m < n => privateKey[m] # Null
  /\ LET keyPair == generateRsaKeyPair(n) IN
       /\ privateKey' = [privateKey EXCEPT ![n] = exportPrvKey(keyPair.privateKey)]
       /\ nodes' = registerNode(nodes, n, exportPubKey(keyPair.publicKey))
  /\ listening' = listening \cup {RouterPort(n)}
  /\ UNCHANGED <<crashed, routerVars, userVars, busy, calls, sendsLeft, regsLeft>>

\* registry /registerNode, called by somebody else
RegisterNode(node) ==
  /\ regsLeft > 0
  /\ regsLeft' = regsLeft - 1
  /\ nodes' = registerNode(nodes, node.nodeId, node.pubKey)
  /\ UNCHANGED <<listening, crashed, privateKey, routerVars, userVars, busy, calls, sendsLeft>>

\* user /sendMessage, lines 48-52: the request arrives and the registry answers
SendMessage(u, message, destinationUserId) ==
  /\ sendsLeft > 0
  /\ sendsLeft' = sendsLeft - 1
  /\ Free(UserPort(u))
  /\ calls' = Append(calls, <<Frame("sendMessage", UserPort(u), "loop",
                                    message, destinationUserId, ParseNodes(nodes))>>)
  /\ UNCHANGED <<nodes, listening, crashed, privateKey, routerVars, userVars, busy, regsLeft>>

\* router /sendMessage, lines 67-70: the same, message and destinationUserId
\* being read and never used
RouterSendMessage(n) ==
  /\ sendsLeft > 0
  /\ sendsLeft' = sendsLeft - 1
  /\ Free(RouterPort(n))
  /\ calls' = Append(calls, <<Frame("sendMessage", RouterPort(n), "loop",
                                    Null, NullNum, ParseNodes(nodes))>>)
  /\ UNCHANGED <<nodes, listening, crashed, privateKey, routerVars, userVars, busy, regsLeft>>

\* variant: the loop stops at 2 nodes
CircuitIncomplete2(circuit) == Len(circuit) < 2
\* variant: the loop goes on at 3 nodes
CircuitIncomplete4(circuit) == Len(circuit) <= 3
\* while (circuit.length < 3)
CircuitIncomplete(circuit) == Len(circuit) < 3

\* user /sendMessage, lines 54-63, and router /sendMessage, lines 72-78: one
\* iteration of the selection loop, which runs without yielding; the
\* iteration that fills the circuit goes on to the first await (user, line
\* 67) or to the answer (router, line 78)
PickNode(s, randomIndex) ==
  LET f == calls[s][1]
      node == IF randomIndex < Len(f.nodes) THEN f.nodes[randomIndex + 1] ELSE Undefined
      circuit == IF Includes(f.circuit, node) THEN f.circuit ELSE Append(f.circuit, node)
  IN  /\ f.pc = "loop"
      /\ f.at \in listening
      /\ busy[f.at] \in {0, s}
      /\ randomIndex = 0 \/ randomIndex < Len(f.nodes)
      /\ IF CircuitIncomplete(circuit)
         THEN /\ calls' = SetFrame(s, 1, [f EXCEPT !.circuit = circuit])
              /\ busy' = [busy EXCEPT ![f.at] = s]
              /\ UNCHANGED lastSentMessage
         ELSE /\ busy' = [busy EXCEPT ![f.at] = 0]
              /\ IF IsUserPort(f.at)
                 THEN /\ calls' = SetFrame(s, 1, [f EXCEPT !.circuit = circuit,
                                                          !.pc = "encrypt"])
                      /\ lastSentMessage' =
                           [lastSentMessage EXCEPT ![UserAt(f.at)] = f.body]
                 ELSE /\ calls' = SetFrame(s, 1, [f EXCEPT !.circuit = circuit,
                                                          !.pc = "done", !.res = "success"])
                      /\ UNCHANGED lastSentMessage
      /\ UNCHANGED <<nodes, listening, crashed, privateKey, routerVars,
                     lastReceivedMessages, lastCircuit, sendsLeft, regsLeft>>

\* user /sendMessage, lines 65-85: encrypt, reverse, remember the circuit and
\* send the onion to the entry node
Encrypt(s) ==
  LET f == calls[s][1]
      u == UserAt(f.at)
      messageToSend == Onion(f.body, f.destinationUserId, f.circuit, s)
      circuit == Reverse(f.circuit)
      entryNode == circuit[1]
      to == BASE_ONION_ROUTER_PORT + entryNode.nodeId
      g == [f EXCEPT !.circuit = circuit, !.out = messageToSend, !.to = to, !.pc = "await"]
  IN  /\ f.pc = "encrypt"
      /\ Free(f.at)
      /\ IF \E j \in 1 .. Len(f.circuit) : f.circuit[j] = Undefined
         THEN \* node.nodeId of undefined: a TypeError at line 69
              /\ Rejects(s, 1, f)
              /\ UNCHANGED lastCircuit
         ELSE /\ lastCircuit' = [lastCircuit EXCEPT ![u] = circuit]
              /\ IF to \in listening
                 THEN /\ calls' = Request(calls, s, 1, g, to, messageToSend)
                      /\ UNCHANGED <<listening, crashed>>
                 ELSE Rejects(s, 1, g)
      /\ UNCHANGED <<nodes, privateKey, routerVars, lastReceivedMessages,
                     lastSentMessage, busy, sendsLeft, regsLeft>>

\* router /message, lines 84-101: peel the layer, record it, forward the rest
RouterMessage(s, i) ==
  LET f == calls[s][i]
      n == RouterAt(f.at)
      layer == f.body
      message == Peel(layer, privateKey[n])
      decrypted == SliceFrom(message, 10)
      destination == ParseInt(Slice(message, 0, 10))
      g == [f EXCEPT !.out = decrypted, !.to = destination, !.pc = "await"]
  IN  /\ f.h = "message" /\ IsRouterPort(f.at)
      /\ f.pc = "recv"
      /\ Free(f.at)
      /\ IF message = Throw
         THEN /\ Rejects(s, i, f)
              /\ UNCHANGED routerVars
         ELSE /\ lastReceivedEncryptedMessage' =
                   [lastReceivedEncryptedMessage EXCEPT ![n] = layer]
              /\ lastReceivedDecryptedMessage' =
                   [lastReceivedDecryptedMessage EXCEPT ![n] = decrypted]
              /\ lastMessageSource' = [lastMessageSource EXCEPT ![n] = n]
              /\ lastMessageDestination' = [lastMessageDestination EXCEPT ![n] = destination]
              /\ IF destination \in listening
                 THEN /\ calls' = Request(calls, s, i, g, destination, decrypted)
                      /\ UNCHANGED <<listening, crashed>>
                 ELSE Rejects(s, i, g)
      /\ UNCHANGED <<nodes, privateKey, userVars, busy, sendsLeft, regsLeft>>

\* user /message, lines 31-35
UserMessage(s, i) ==
  LET f == calls[s][i]
      u == UserAt(f.at)
  IN  /\ f.h = "message" /\ IsUserPort(f.at)
      /\ f.pc = "recv"
      /\ Free(f.at)
      /\ lastReceivedMessages' = [lastReceivedMessages EXCEPT ![u] = f.body]
      /\ calls' = SetFrame(s, i, [f EXCEPT !.pc = "done", !.res = "success"])
      /\ UNCHANGED <<nodes, listening, crashed, privateKey, routerVars,
                     lastSentMessage, lastCircuit, busy, sendsLeft, regsLeft>>

\* variant: the fetch is not awaited
FetchSent(s, i) == Len(calls[s]) > i
\* variant: a fetch that failed counts as answered
FetchSettled(s, i) == Len(calls[s]) > i /\ calls[s][i + 1].pc \in {"done", "threw"}
\* await fetch(...): the request that frame i of call s sent has an answer,
\* whatever its status
FetchAnswered(s, i) == Len(calls[s]) > i /\ calls[s][i + 1].pc = "done"

\* router /message line 103 and user /sendMessage line 87: after the awaited
\* fetch the handler answers "success"
Respond(s, i) ==
  LET f == calls[s][i] IN
      /\ f.pc = "await"
      /\ Free(f.at)
      /\ FetchAnswered(s, i)
      /\ calls' = SetFrame(s, i, [f EXCEPT !.pc = "done", !.res = "success"])
      /\ UNCHANGED <<nodes, listening, crashed, privateKey, routerVars, userVars,
                     busy, sendsLeft, regsLeft>>

\* the awaited fetch rejects: the process it was sent to has terminated
\* without answering
FetchFails(s, i) ==
  LET f == calls[s][i] IN
      /\ f.pc = "await"
      /\ Free(f.at)
      /\ Len(calls[s]) > i
      /\ ~FetchAnswered(s, i)
      /\ calls[s][i + 1].at \in crashed
      /\ Rejects(s, i, f)
      /\ UNCHANGED <<nodes, privateKey, routerVars, userVars, busy, sendsLeft, regsLeft>>

Next ==
  \/ \E n \in RouterIds : LaunchRouter(n)
  \/ \E node \in ExtraNodes : RegisterNode(node)
  \/ \E u \in Senders, m \in Messages, d \in DestinationUserIds : SendMessage(u, m, d)
  \/ \E n \in RouterIds : RouterSendMessage(n)
  \/ \E s \in 1 .. Len(calls), r \in 0 .. (NumRouters + MaxExtraRegs) : PickNode(s, r)
  \/ \E s \in 1 .. Len(calls) : Encrypt(s)
  \/ \E s \in 1 .. Len(calls) : \E i \in 1 .. Len(calls[s]) : RouterMessage(s, i)
  \/ \E s \in 1 .. Len(calls) : \E i \in 1 .. Len(calls[s]) : UserMessage(s, i)
  \/ \E s \in 1 .. Len(calls) : \E i \in 1 .. Len(calls[s]) : Respond(s, i)
  \/ \E s \in 1 .. Len(calls) : \E i \in 1 .. Len(calls[s]) : FetchFails(s, i)

Spec == Init /\ [][Next]_vars

(***************************************************************************)
(* Two messages in flight.  All routers are up and registered, and clients *)
(* ask user 0 twice to send to user 1.  The router's /message handler is   *)
(* taken await by await: the two decryptions (lines 84-88) yield to other  *)
(* handlers, the field writes and the call of fetch (lines 90-95) run      *)
(* without yielding.                                                       *)
(***************************************************************************)
\* the message of the k-th request: "8", "9"
PairMessage(k) == <<Ch(55 + k)>>
PairDestination == 1

AllLaunched ==
  /\ nodes = [n \in 1 .. NumRouters |->
                [nodeId |-> n - 1,
                 pubKey |-> exportPubKey(generateRsaKeyPair(n - 1).publicKey)]]
  /\ listening = Ports
  /\ crashed = {}
  /\ privateKey = [n \in RouterIds |-> exportPrvKey(generateRsaKeyPair(n).privateKey)]
  /\ lastReceivedEncryptedMessage = [n \in RouterIds |-> Null]
  /\ lastReceivedDecryptedMessage = [n \in RouterIds |-> Null]
  /\ lastMessageSource = [n \in RouterIds |-> NullNum]
  /\ lastMessageDestination = [n \in RouterIds |-> NullNum]
  /\ lastReceivedMessages = [u \in UserIds |-> Null]
  /\ lastSentMessage = [u \in UserIds |-> Null]
  /\ lastCircuit = [u \in UserIds |-> <<>>]
  /\ busy = [p \in Ports |-> 0]
  /\ calls = <<>>
  /\ regsLeft = 0

InitPair == AllLaunched /\ sendsLeft = 2

\* variant: line 90 stands before the awaits
AtReceipt(previous, layer) == layer
\* lines 84-88 write no field: lastReceivedEncryptedMessage = layer is line 90
BeforeWrites(previous, layer) == previous

\* router /message, lines 84-88: the two awaited decryptions
RouterDecrypt(s, i) ==
  LET f == calls[s][i]
      n == RouterAt(f.at)
      layer == f.body
      message == Peel(layer, privateKey[n])
  IN  /\ f.h = "message" /\ IsRouterPort(f.at)
      /\ f.pc = "recv"
      /\ Free(f.at)
      /\ lastReceivedEncryptedMessage' =
           [lastReceivedEncryptedMessage EXCEPT ![n] = BeforeWrites(@, layer)]
      /\ IF message = Throw
         THEN Rejects(s, i, f)
         ELSE /\ calls' = SetFrame(s, i, [f EXCEPT !.pc = "decrypted"])
              /\ UNCHANGED <<listening, crashed>>
      /\ UNCHANGED <<nodes, privateKey, lastReceivedDecryptedMessage, lastMessageSource,
                     lastMessageDestination, userVars, busy, sendsLeft, regsLeft>>

\* variant: the arguments of fetch are read before lines 90-93 write
ReadBeforeWrite(previous, written) == previous
\* lines 95 and 97 read the fields that lines 91 and 93 have just written
ReadAfterWrite(previous, written) == written

\* router /message, lines 90-101: record the message, forward what the
\* fields hold to the address the fields hold
RouterRecord(s, i) ==
  LET f == calls[s][i]
      n == RouterAt(f.at)
      layer == f.body
      message == Peel(layer, privateKey[n])
      decrypted == SliceFrom(message, 10)
      destination == ParseInt(Slice(message, 0, 10))
      sent == ReadAfterWrite(lastReceivedDecryptedMessage[n], decrypted)
      to == ReadAfterWrite(lastMessageDestination[n], destination)
      g == [f EXCEPT !.out = sent, !.to = to, !.pc = "await"]
  IN  /\ f.h = "message" /\ IsRouterPort(f.at)
      /\ f.pc = "decrypted"
      /\ Free(f.at)
      /\ lastReceivedEncryptedMessage' = [lastReceivedEncryptedMessage EXCEPT ![n] = layer]
      /\ lastReceivedDecryptedMessage' = [lastReceivedDecryptedMessage EXCEPT ![n] = decrypted]
      /\ lastMessageSource' = [lastMessageSource EXCEPT ![n] = n]
      /\ lastMessageDestination' = [lastMessageDestination EXCEPT ![n] = destination]
      /\ IF to \in listening
         THEN /\ calls' = Request(calls, s, i, g, to, sent)
              /\ UNCHANGED <<listening, crashed>>
         ELSE Rejects(s, i, g)
      /\ UNCHANGED <<nodes, privateKey, userVars, busy, sendsLeft, regsLeft>>

\* user /getLastReceivedMessage: the result it answers
getLastReceivedMessage(u) ==
  IF lastReceivedMessages[u] = Null THEN Null ELSE lastReceivedMessages[u]

NextPair ==
  \/ SendMessage(0, PairMessage(Len(calls) + 1), PairDestination)
  \/ \E s \in 1 .. Len(calls), r \in 0 .. (NumRouters - 1) : PickNode(s, r)
  \/ \E s \in 1 .. Len(calls) : Encrypt(s)
  \/ \E s \in 1 .. Len(calls) : \E i \in 1 .. Len(calls[s]) : RouterDecrypt(s, i)
  \/ \E s \in 1 .. Len(calls) : \E i \in 1 .. Len(calls[s]) : RouterRecord(s, i)
  \/ \E s \in 1 .. Len(calls) : \E i \in 1 .. Len(calls[s]) : UserMessage(s, i)
  \/ \E s \in 1 .. Len(calls) : \E i \in 1 .. Len(calls[s]) : Respond(s, i)

SpecPair == InitPair /\ [][NextPair]_vars

(***************************************************************************)
(* A layer altered in transit.  All routers are up and registered, user 0  *)
(* is asked once to send "8" to user 1, and somebody on the network        *)
(* changes one request to a router's /message before it is handled.        *)
(***************************************************************************)
\* the bytes of the IV whose lowest bit is changed: the one that meets the
\* last digit of the address and the one that meets the character after it
TamperPositions == {10, 11}
\* the layer with one character of its IV text changed
TamperIv(layer, j) == [layer EXCEPT ![2].flip = j]
\* the layer with one character of its encrypted symmetric key changed
TamperRsa(layer) == [layer EXCEPT ![1].pair = -1]
\* the layer is not as it was encrypted
Tampered(layer) ==
  /\ Len(layer) = 3 /\ layer[1].k = "rsa" /\ layer[2].k = "iv"
  /\ (layer[1].pair = -1 \/ layer[2].flip # 0)

\* the request to router /message at place i of call s is altered in transit
Tamper(s, i, altered) ==
  LET f == calls[s][i] IN
      /\ f.h = "message" /\ IsRouterPort(f.at)
      /\ f.pc = "recv"
      /\ \A k \in 1 .. Len(calls[s]) : ~Tampered(calls[s][k].body)
      /\ altered \in {TamperIv(f.body, j) : j \in TamperPositions} \cup {TamperRsa(f.body)}
      /\ calls' = SetFrame(s, i, [f EXCEPT !.body = altered])
      /\ UNCHANGED <<nodes, listening, crashed, privateKey, routerVars, userVars,
                     busy, sendsLeft, regsLeft>>

InitTamper == AllLaunched /\ sendsLeft = 1

NextTamper ==
  \/ SendMessage(0, PairMessage(1), PairDestination)
  \/ \E s \in 1 .. Len(calls), r \in 0 .. (NumRouters - 1) : PickNode(s, r)
  \/ \E s \in 1 .. Len(calls) : Encrypt(s)
  \/ \E s \in 1 .. Len(calls) : \E i \in 1 .. Len(calls[s]) :
       \E j \in TamperPositions : Tamper(s, i, TamperIv(calls[s][i].body, j))
  \/ \E s \in 1 .. Len(calls) : \E i \in 1 .. Len(calls[s]) :
       Tamper(s, i, TamperRsa(calls[s][i].body))
  \/ \E s \in 1 .. Len(calls) : \E i \in 1 .. Len(calls[s]) : RouterMessage(s, i)
  \/ \E s \in 1 .. Len(calls) : \E i \in 1 .. Len(calls[s]) : UserMessage(s, i)
  \/ \E s \in 1 .. Len(calls) : \E i \in 1 .. Len(calls[s]) : Respond(s, i)
  \/ \E s \in 1 .. Len(calls) : \E i \in 1 .. Len(calls[s]) : FetchFails(s, i)

SpecTamper == InitTamper /\ [][NextTamper]_vars

(***************************************************************************)
(* One message with every process up.  All routers are up and registered,  *)
(* user 0 is asked once to send to a launched user.  A handler that can    *)
(* run is run by its event loop in the end, and Math.random() yields each  *)
(* index in the end.                                                       *)
(***************************************************************************)
InitLive == AllLaunched /\ sendsLeft = 1

NextLive ==
  \/ \E m \in Messages, d \in UserIds : SendMessage(0, m, d)
  \/ \E s \in 1 .. Len(calls), r \in 0 .. (NumRouters - 1) : PickNode(s, r)
  \/ \E s \in 1 .. Len(calls) : Encrypt(s)
  \/ \E s \in 1 .. Len(calls) : \E i \in 1 .. Len(calls[s]) : RouterMessage(s, i)
  \/ \E s \in 1 .. Len(calls) : \E i \in 1 .. Len(calls[s]) : UserMessage(s, i)
  \/ \E s \in 1 .. Len(calls) : \E i \in 1 .. Len(calls[s]) : Respond(s, i)

\* frame i of the one call exists
Live(i) == Len(calls) >= 1 /\ Len(calls[1]) >= i

\* the handler at place i of the call is ready to run: Encrypt(1),
\* RouterMessage(1, i) is enabled
EncryptReady == Live(1) /\ calls[1][1].pc = "encrypt" /\ Free(calls[1][1].at)
RouterMessageReady(i) ==
  /\ Live(i) /\ calls[1][i].h = "message" /\ IsRouterPort(calls[1][i].at)
  /\ calls[1][i].pc = "recv" /\ Free(calls[1][i].at)

\* weak fairness of every step of the call; for Encrypt and RouterMessage,
\* which end their own readiness, WF_vars is written with the guard of the
\* action in the place of ENABLED
FairLive ==
  /\ \A r \in 0 .. (NumRouters - 1) : WF_vars(Live(1) /\ PickNode(1, r))
  /\ []<>~EncryptReady
  /\ \A i \in 2 .. 4 : []<>~RouterMessageReady(i)
  /\ \A i \in 1 .. 5 :
       /\ WF_vars(Live(i) /\ UserMessage(1, i))
       /\ WF_vars(Live(i) /\ Respond(1, i))

SpecLive == InitLive /\ [][NextLive]_vars /\ FairLive

(***************************************************************************)
(* Properties.                                                             *)
(***************************************************************************)
\* the calls of a user's /sendMessage
SendCalls == {s \in 1 .. Len(calls) : IsUserPort(calls[s][1].at)}
\* the handler has built its onion
Built(f) == f.out # Null
\* a directory entry made by the launched router of that id
Genuine(node) ==
  /\ node.nodeId \in RouterIds
  /\ privateKey[node.nodeId] # Null
  /\ node.pubKey = exportPubKey(generateRsaKeyPair(node.nodeId).publicKey)
GenuineCircuit(c) == \A j \in 1 .. Len(c) : Genuine(c[j])
\* what router n, peeling layer with its private key, is left with after the address
Remainder(layer, n) ==
  LET message == Peel(layer, privateKey[n])
  IN  IF message = Throw THEN Throw ELSE SliceFrom(message, 10)
\* the handler at place i of call s is a router's /message or a user's /message
IsRouterFrame(s, i) == i > 1 /\ IsRouterPort(calls[s][i].at)
IsUserFrame(s, i) == i > 1 /\ IsUserPort(calls[s][i].at)
\* the address that sendMessage writes for port p
Address(p) == PadStart(ToDigits(p), 10, Zero)

\* C1: for every message, destination and circuit of three registered
\* routers, the onion that sendMessage builds, peeled by hop 1, hop 2 and hop 3
\* with their own private keys, leaves exactly the message; and whenever the
\* destination user's /message handler has run for the call, it ran as the
\* fifth handler of the chain, at the destination named in the request, and
\* the message is what the destination's inbox holds.
C1_RoundTrip ==
  \A s \in SendCalls :
    LET f == calls[s][1]
        c == f.circuit
    IN  (Built(f) /\ GenuineCircuit(c)) =>
          /\ Remainder(Remainder(Remainder(f.out, c[1].nodeId), c[2].nodeId),
                       c[3].nodeId) = f.body
          /\ \A i \in 2 .. Len(calls[s]) :
               (IsUserFrame(s, i) /\ calls[s][i].pc = "done") =>
                 /\ i = 5
                 /\ calls[s][i].at = UserPort(f.destinationUserId)
                 /\ calls[s][i].body = f.body
                 /\ lastReceivedMessages[f.destinationUserId] = f.body

\* C1 witness: the message "7é" went through three routers into the inbox of user 1
C1_Witness ==
  \E s \in SendCalls :
    /\ GenuineCircuit(calls[s][1].circuit)
    /\ calls[s][1].body = <<Ch(55), Ch(233)>>
    /\ calls[s][1].destinationUserId = 1
    /\ Len(calls[s]) = 5
    /\ calls[s][5].pc = "done"
    /\ lastReceivedMessages[1] = <<Ch(55), Ch(233)>>

\* C2: the address a router parses from its decrypted layer is the routing
\* address (base router port + nodeId) of the next node of the circuit, and at
\* the third hop the address (base user port + destinationUserId) of the
\* destination; every address sendMessage writes is 10 characters long and
\* parses back to the number it was written from.
C2_AddressFidelity ==
  \A s \in SendCalls :
    LET f == calls[s][1]
        c == f.circuit
    IN  Built(f) =>
          /\ \A p \in {UserPort(f.destinationUserId)} \cup
                       {RouterPort(c[j].nodeId) : j \in 1 .. Len(c)} :
               StrLen(Address(p)) = 10 /\ ParseInt(Address(p)) = p
          /\ \A i \in 2 .. Len(calls[s]) :
               (IsRouterFrame(s, i) /\ calls[s][i].to # NullNum) =>
                 /\ i <= 4
                 /\ calls[s][i].to =
                      IF i < 4 THEN RouterPort(c[i].nodeId)
                      ELSE UserPort(f.destinationUserId)

\* C2 witness: the third hop of a message that starts with a digit parsed the
\* address of user 1
C2_Witness ==
  \E s \in SendCalls :
    /\ calls[s][1].body = <<Ch(55), Ch(233)>>
    /\ Len(calls[s]) >= 4
    /\ IsRouterFrame(s, 4)
    /\ calls[s][4].to = UserPort(1)
    /\ calls[s][2].to = RouterPort(calls[s][1].circuit[2].nodeId)

\* C3: when the listing has at least 3 entries, the circuit under
\* construction holds only entries of that listing and none twice; the
\* circuit sendMessage goes on with has exactly 3 of them, is what lastCircuit
\* holds, and has 3 distinct node ids when the ids of the listing are distinct.
C3_CircuitValidity ==
  \A s \in 1 .. Len(calls) :
    LET f == calls[s][1]
        c == f.circuit
    IN  Len(f.nodes) >= 3 =>
          /\ Len(c) <= 3
          /\ \A j \in 1 .. Len(c) : \E i \in 1 .. Len(f.nodes) : c[j] = f.nodes[i]
          /\ \A j, k \in 1 .. Len(c) : j # k => c[j] # c[k]
          /\ f.pc # "loop" => Len(c) = 3
          /\ (\A i, k \in 1 .. Len(f.nodes) : i # k => f.nodes[i].nodeId # f.nodes[k].nodeId)
               => (\A j, k \in 1 .. Len(c) : j # k => c[j].nodeId # c[k].nodeId)
          /\ (IsUserPort(f.at) /\ f.pc \notin {"loop", "encrypt"})
               => lastCircuit[UserAt(f.at)] = c

\* C3 witness: a circuit of 3 was built from a listing of 4 and is the last circuit
C3_Witness ==
  \E s \in SendCalls :
    /\ Len(calls[s][1].nodes) = 4
    /\ calls[s][1].pc = "await"
    /\ Len(lastCircuit[UserAt(calls[s][1].at)]) = 3
    /\ lastCircuit[UserAt(calls[s][1].at)] = calls[s][1].circuit

\* C4: the directory is append-only.  It has one entry per registration made
\* (by launched routers and by others, an id already present included);
\* every step leaves the entries it had in place and adds at most one at the
\* end; the listing a sendMessage got is the directory as it was, in
\* insertion order: a prefix of the directory now.
C4_AppendOnly ==
  /\ [](/\ Len(nodes) = Cardinality({n \in RouterIds : privateKey[n] # Null})
                         + (MaxExtraRegs - regsLeft)
        /\ \A s \in 1 .. Len(calls) :
             LET snapshot == calls[s][1].nodes
             IN  /\ Len(snapshot) <= Len(nodes)
                 /\ snapshot = ParseNodes(SubSeq(nodes, 1, Len(snapshot))))
  /\ [][/\ Len(nodes') \in {Len(nodes), Len(nodes) + 1}
        /\ SubSeq(nodes', 1, Len(nodes)) = nodes]_vars

\* C4 witness: an id was registered twice and both entries are in one circuit
C4_Witness ==
  \E s \in SendCalls :
    LET c == calls[s][1].circuit
    IN  /\ calls[s][1].pc # "loop"
        /\ \E i, j \in 1 .. Len(nodes) : i # j /\ nodes[i].nodeId = nodes[j].nodeId
        /\ \E j, k \in 1 .. Len(c) : j # k /\ c[j].nodeId = c[k].nodeId

\* the router handler f failed before it recorded anything: decryption threw
DecryptFailed(f) == f.to = NullNum /\ (f.pc = "threw" \/ f.res = "error")
\* the router handler f recorded its message and its forward failed
ForwardFailed(f) == f.to # NullNum /\ (f.pc = "threw" \/ f.res = "error")

C7_CryptoFailureContained ==
  \A s \in SendCalls : \A i \in 2 .. Len(calls[s]) :
    (IsRouterFrame(s, i) /\ DecryptFailed(calls[s][i])) =>
      /\ Len(calls[s]) = i
      /\ calls[s][i].at \notin crashed

\* C8, as claimed: a router whose forward failed has not crashed and has not
\* reported the failure to its caller.
C8_ForwardFailureSwallowed ==
  \A s \in SendCalls : \A i \in 2 .. Len(calls[s]) :
    (IsRouterFrame(s, i) /\ ForwardFailed(calls[s][i])) =>
      /\ calls[s][i].at \notin crashed
      /\ calls[s][i].res # "error"

\* C9: a sendMessage that got a listing of fewer than 3 entries stays in its
\* selection loop, which can always run once more: the circuit never has 3
\* nodes, nothing is encrypted or sent, no answer or error is given, the
\* process is not terminated, and a user's lastSentMessage and lastCircuit are
\* not written.
C9_LoopsForever ==
  \A s \in 1 .. Len(calls) :
    LET f == calls[s][1] IN
      Len(f.nodes) < 3 =>
        /\ f.pc = "loop"
        /\ Len(f.circuit) < 3
        /\ Len(calls[s]) = 1
        /\ f.out = Null
        /\ f.res = "none"
        /\ f.at \in listening
        /\ ENABLED PickNode(s, 0)
        /\ IsUserPort(f.at) =>
             /\ lastSentMessage[UserAt(f.at)] = Null
             /\ lastCircuit[UserAt(f.at)] = <<>>

\* C9 witness: a user's loop has taken both entries of a listing of 2 and spins
C9_Witness ==
  \E s \in SendCalls :
    /\ Len(calls[s][1].nodes) = 2
    /\ Len(calls[s][1].circuit) = 2
    /\ busy[calls[s][1].at] = s

\* a string of the shape of an onion layer
IsLayer(str) == Len(str) = 3 /\ str[1].k = "rsa" /\ str[2].k = "iv" /\ str[3].k = "aes"

RECURSIVE LearnsAddresses(_, _), LearnsText(_, _)
\* the addresses router n can read in a layer with its private key, peeling on
\* as long as the remainder is a layer it can open
LearnsAddresses(layer, n) ==
  LET message == Peel(layer, privateKey[n]) IN
    IF message = Throw THEN {}
    ELSE {ParseInt(Slice(message, 0, 10))} \cup
         (IF IsLayer(SliceFrom(message, 10))
          THEN LearnsAddresses(SliceFrom(message, 10), n) ELSE {})
\* the plaintexts router n can read in a layer that way
LearnsText(layer, n) ==
  LET message == Peel(layer, privateKey[n]) IN
    IF message = Throw THEN {}
    ELSE IF IsLayer(SliceFrom(message, 10))
         THEN LearnsText(SliceFrom(message, 10), n)
         ELSE {SliceFrom(message, 10)}

\* the address that follows hop j of the circuit c of request f
NextAddress(f, j) ==
  IF j < 3 THEN RouterPort(f.circuit[j + 1].nodeId) ELSE UserPort(f.destinationUserId)

\* C10: on a circuit of three registered routers, the router at hop k can
\* read in the layer it receives only the addresses that follow the hops it
\* occupies itself from k on, and the message only if it occupies hop 3; what
\* it is left with after the address is, at hops 1 and 2, a layer whose key is
\* encrypted for the next node of the circuit and, at hop 3, the message.
C10_NextHopOnly ==
  \A s \in SendCalls :
    LET f == calls[s][1]
        c == f.circuit
    IN  (Built(f) /\ GenuineCircuit(c)) =>
          \A i \in 2 .. Len(calls[s]) :
            (IsRouterFrame(s, i) /\ i <= 4) =>
              LET g == calls[s][i]
                  n == RouterAt(g.at)
              IN  /\ LearnsAddresses(g.body, n) \subseteq
                       {NextAddress(f, j) : j \in {k \in (i - 1) .. 3 : c[k].nodeId = n}}
                  /\ LearnsText(g.body, n) \subseteq
                       (IF c[3].nodeId = n THEN {f.body} ELSE {})
                  /\ (g.to # NullNum /\ i < 4) =>
                       /\ IsLayer(g.out)
                       /\ g.out[1].pair = importPubKey(c[i].pubKey).pair
                       /\ Remainder(g.out, n) # Throw => c[i].nodeId = n
                  /\ (g.to # NullNum /\ i = 4) => g.out = f.body

\* C10 witness: the first of three different routers read the address of the
\* second and nothing else, and the message was delivered
C10_Witness ==
  \E s \in SendCalls :
    LET f == calls[s][1]
        c == f.circuit
    IN  /\ Built(f) /\ GenuineCircuit(c)
        /\ c[1].nodeId # c[2].nodeId /\ c[1].nodeId # c[3].nodeId
        /\ Len(calls[s]) = 5
        /\ calls[s][5].pc = "done"
        /\ LearnsAddresses(calls[s][2].body, c[1].nodeId) = {RouterPort(c[2].nodeId)}
        /\ LearnsText(calls[s][2].body, c[1].nodeId) = {}

\* the handlers of call s at router n that got past decryption and recorded
Recorded(s, n) ==
  {i \in 2 .. Len(calls[s]) : calls[s][i].at = RouterPort(n) /\ calls[s][i].to # NullNum}
\* the last of them
LastRecorded(s, n) == CHOOSE i \in Recorded(s, n) : \A j \in Recorded(s, n) : j <= i

\* C11: a router that has processed no message has all its introspection
\* fields null; one that has processed a message holds the layer it received
\* last, what was left of that layer after the 10-character address, its own
\* id as source and the parsed address.  On a circuit of registered routers
\* what hops 1 and 2 hold as decrypted message is the still-wrapped next
\* layer and the next node's address, and what hop 3 holds is the plaintext
\* and the destination user's address.
C11_Introspection ==
  /\ \A n \in RouterIds :
       IF \A s \in SendCalls : Recorded(s, n) = {}
       THEN /\ lastReceivedEncryptedMessage[n] = Null
            /\ lastReceivedDecryptedMessage[n] = Null
            /\ lastMessageSource[n] = NullNum
            /\ lastMessageDestination[n] = NullNum
       ELSE \E s \in SendCalls :
              /\ Recorded(s, n) # {}
              /\ LET g == calls[s][LastRecorded(s, n)] IN
                   /\ lastReceivedEncryptedMessage[n] = g.body
                   /\ lastReceivedDecryptedMessage[n] = g.out
                   /\ lastReceivedDecryptedMessage[n] # Null
                   /\ lastMessageSource[n] = n
                   /\ lastMessageDestination[n] = g.to
  /\ \A s \in SendCalls :
       LET f == calls[s][1]
           c == f.circuit
       IN  (Built(f) /\ GenuineCircuit(c)) =>
             \A i \in Recorded(s, c[1].nodeId) \cup Recorded(s, c[2].nodeId)
                      \cup Recorded(s, c[3].nodeId) :
               LET g == calls[s][i] IN
                 /\ i <= 4
                 /\ g.body = (IF i = 2 THEN f.out ELSE calls[s][i - 1].out)
                 /\ i < 4 => (IsLayer(g.out) /\ g.to = BASE_ONION_ROUTER_PORT + c[i].nodeId)
                 /\ i = 4 => (g.out = f.body
                              /\ g.to = BASE_USER_PORT + f.destinationUserId)

\* C11 witness: three different routers have processed the message "7é"; the
\* first holds the onion and a wrapped layer, the third holds the plaintext
C11_Witness ==
  \E s \in SendCalls :
    LET f == calls[s][1]
        c == f.circuit
    IN  /\ Built(f) /\ GenuineCircuit(c)
        /\ c[1].nodeId # c[2].nodeId /\ c[1].nodeId # c[3].nodeId /\ c[2].nodeId # c[3].nodeId
        /\ f.body = <<Ch(55), Ch(233)>>
        /\ lastReceivedEncryptedMessage[c[1].nodeId] = f.out
        /\ IsLayer(lastReceivedDecryptedMessage[c[1].nodeId])
        /\ lastMessageDestination[c[1].nodeId] = RouterPort(c[2].nodeId)
        /\ lastReceivedDecryptedMessage[c[3].nodeId] = f.body
        /\ lastMessageDestination[c[3].nodeId] = UserPort(f.destinationUserId)

\* the deliveries made to user u: the /message handlers of u that have run
Delivered(u) ==
  {<<s, i>> \in (1 .. Len(calls)) \X (2 .. 5) :
     i <= Len(calls[s]) /\ calls[s][i].at = UserPort(u) /\ calls[s][i].pc = "done"}
\* this step runs the /message handler at place i of call s
Delivers(s, i) ==
  /\ i <= Len(calls[s])
  /\ calls[s][i].h = "message"
  /\ calls[s][i].pc = "recv"
  /\ calls'[s][i].pc = "done"

\* C12: a user's inbox is one slot.  getLastReceivedMessage answers null as
\* long as nothing was delivered to the user and otherwise the plaintext of
\* one delivery; each delivery to the user makes it answer the plaintext of
\* that delivery, whatever was there, and no other step changes the answer.
C12_SingleSlot ==
  /\ [](\A u \in UserIds :
          IF Delivered(u) = {}
          THEN getLastReceivedMessage(u) = Null
          ELSE \E d \in Delivered(u) : getLastReceivedMessage(u) = calls[d[1]][d[2]].body)
  /\ [][\A u \in UserIds :
          /\ \A s \in 1 .. Len(calls) : \A i \in 2 .. 5 :
               (Delivers(s, i) /\ calls[s][i].at = UserPort(u))
                 => lastReceivedMessages'[u] = calls[s][i].body
          /\ (\A s \in 1 .. Len(calls) : \A i \in 2 .. 5 :
                ~(Delivers(s, i) /\ calls[s][i].at = UserPort(u)))
                 => lastReceivedMessages'[u] = lastReceivedMessages[u]]_vars

\* C12 witness: both messages were delivered to user 1, the second request's
\* first: the inbox answers the first request's message
C12_Witness ==
  /\ Len(calls) = 2
  /\ <<1, 5>> \in Delivered(1) /\ <<2, 5>> \in Delivered(1)
  /\ getLastReceivedMessage(1) = PairMessage(1)
  /\ getLastReceivedMessage(0) = Null

\* C13, as claimed: a router that has handled a layer altered in transit
\* failed to decrypt it, recorded nothing and forwarded nothing.
C13_TamperDetected ==
  \A s \in SendCalls : \A i \in 2 .. Len(calls[s]) :
    (IsRouterFrame(s, i) /\ Tampered(calls[s][i].body) /\ calls[s][i].pc # "recv") =>
      /\ calls[s][i].to = NullNum
      /\ calls[s][i].out = Null
      /\ Len(calls[s]) = i

\* C14: once sendMessage has sent, lastCircuit is the circuit in the order
\* of travel: its first node is the one whose key opens the outermost layer
\* and the one the onion was sent to, the k-th request of the chain is
\* handled by the k-th node of lastCircuit and the fourth by the destination
\* user, there is at most one request per place, so that each of three
\* different routers gets the message once; and with every process up, a
\* message that was sent is in the end in the destination's inbox.
C14_CircuitOrder ==
  /\ [](\A s \in SendCalls :
          LET f == calls[s][1]
              c == lastCircuit[UserAt(f.at)]
          IN  Built(f) =>
                /\ c = f.circuit /\ Len(c) = 3
                /\ f.out[1].pair = importPubKey(c[1].pubKey).pair
                /\ f.to = RouterPort(c[1].nodeId)
                /\ Len(calls[s]) <= 5
                /\ \A i \in 2 .. Len(calls[s]) :
                     /\ calls[s][i].at = (IF i <= 4 THEN RouterPort(c[i - 1].nodeId)
                                          ELSE UserPort(f.destinationUserId))
                     /\ calls[s][i].body = calls[s][i - 1].out
                /\ \A n \in RouterIds :
                     Cardinality({i \in 2 .. Len(calls[s]) : calls[s][i].at = RouterPort(n)})
                       <= Cardinality({k \in 1 .. 3 : c[k].nodeId = n}))
  /\ \A m \in Messages : \A d \in UserIds :
       (Live(2) /\ calls[1][1].body = m /\ calls[1][1].destinationUserId = d)
         ~> (Live(5) /\ lastReceivedMessages[d] = m)

\* C14 witness: "7é" went from user 0 over three different routers, in the
\* order of lastCircuit, into the inbox of user 1
C14_Witness ==
  /\ Live(5)
  /\ calls[1][1].body = <<Ch(55), Ch(233)>>
  /\ \A k \in 1 .. 3 : calls[1][k + 1].at = RouterPort(lastCircuit[0][k].nodeId)
  /\ Cardinality({calls[1][k + 1].at : k \in 1 .. 3}) = 3
  /\ calls[1][5].at = UserPort(1)
  /\ lastReceivedMessages[1] = <<Ch(55), Ch(233)>>

\* C15: with a listing of at least 3 entries and Math.random() yielding
\* each index in the end, the selection loop of a sendMessage ends: the
\* handler is then past it with 3 different entries of the listing as its
\* circuit, and it goes on to encrypt and to send the onion.
C15_LoopTerminates ==
  /\ (Live(1) /\ Len(calls[1][1].nodes) >= 3)
       ~> (/\ Live(1)
           /\ calls[1][1].pc # "loop"
           /\ Len(calls[1][1].circuit) = 3
           /\ Cardinality({calls[1][1].circuit[k].obj : k \in 1 .. 3}) = 3
           /\ busy[calls[1][1].at] = 0)
  /\ (Live(1) /\ Len(calls[1][1].nodes) >= 3)
       ~> (Live(2) /\ calls[1][2].body = calls[1][1].out /\ Built(calls[1][1]))

\* C15 witness: the loop ended after drawing from a listing of 3 and the
\* onion is on its way
C15_Witness ==
  /\ Live(2)
  /\ Len(calls[1][1].nodes) = 3
  /\ calls[1][1].pc = "await"
  /\ Len(calls[1][1].circuit) = 3
  /\ calls[1][2].pc = "recv"

\* the handler at place i of call s is a router's and has written the fields
HasRecorded(s, i) ==
  /\ i <= Len(calls[s])
  /\ IsRouterFrame(s, i)
  /\ calls[s][i].pc \in {"await", "done", "threw"}
  /\ calls[s][i].to # NullNum
\* this step is the one in which it writes them
Records(s, i) ==
  /\ i <= Len(calls[s])
  /\ IsRouterFrame(s, i)
  /\ calls[s][i].pc = "decrypted"
  /\ calls'[s][i].pc # "decrypted"
\* the fields of router n are those of the layer that the handler at place i
\* of call s received: the layer, what it forwarded and where to
FieldsOf(n, s, i) ==
  /\ lastReceivedEncryptedMessage[n] = calls[s][i].body
  /\ lastReceivedDecryptedMessage[n] = calls[s][i].out
  /\ lastMessageDestination[n] = calls[s][i].to
  /\ lastMessageSource[n] = n
\* they are what the router's key leaves of that layer
Decrypts(n, s, i) ==
  LET message == Peel(calls[s][i].body, privateKey[n]) IN
    /\ lastReceivedDecryptedMessage[n] = SliceFrom(message, 10)
    /\ lastMessageDestination[n] = ParseInt(Slice(message, 0, 10))

\* C16: with two messages in flight the last-message fields of a router are
\* written as a unit.  In every state they are all null or all those of one
\* layer that a handler of the router has recorded; the step in which a
\* handler, its decryption completed, records its layer leaves all of them
\* those of that layer; and no other step changes any of them.
C16_FieldsAsUnit ==
  /\ [](\A n \in RouterIds :
          \/ /\ lastReceivedEncryptedMessage[n] = Null
             /\ lastReceivedDecryptedMessage[n] = Null
             /\ lastMessageDestination[n] = NullNum
             /\ \A s \in 1 .. Len(calls) : \A i \in 2 .. 4 :
                  ~(HasRecorded(s, i) /\ calls[s][i].at = RouterPort(n))
          \/ \E s \in 1 .. Len(calls) : \E i \in 2 .. 4 :
               /\ HasRecorded(s, i) /\ calls[s][i].at = RouterPort(n)
               /\ FieldsOf(n, s, i) /\ Decrypts(n, s, i))
  /\ [][\A n \in RouterIds :
          /\ \A s \in 1 .. Len(calls) : \A i \in 2 .. 4 :
               (Records(s, i) /\ calls[s][i].at = RouterPort(n)) => FieldsOf(n, s, i)'
          /\ (\A s \in 1 .. Len(calls) : \A i \in 2 .. 4 :
                ~(Records(s, i) /\ calls[s][i].at = RouterPort(n)))
               => /\ lastReceivedEncryptedMessage'[n] = lastReceivedEncryptedMessage[n]
                  /\ lastReceivedDecryptedMessage'[n] = lastReceivedDecryptedMessage[n]
                  /\ lastMessageDestination'[n] = lastMessageDestination[n]]_vars

\* C16 witness: at one router the handler of the first message is between
\* its decryption and its writes, the handler of the second message, which
\* came later, has written already, and the fields are those of the second
C16_Witness ==
  /\ Len(calls) = 2
  /\ \E n \in RouterIds : \E i, j \in 2 .. 4 :
       /\ i <= Len(calls[1]) /\ calls[1][i].at = RouterPort(n)
       /\ calls[1][i].pc = "decrypted"
       /\ HasRecorded(2, j) /\ calls[2][j].at = RouterPort(n)
       /\ FieldsOf(n, 2, j)

\* C17: with two messages in flight no forward mixes them.  Every router
\* handler that has recorded its layer has sent exactly one request: it
\* carries what is left of that handler's own layer after the address and
\* went to the address parsed from that same layer; a handler that has not
\* got that far has sent none.
C17_NoMix ==
  \A s \in 1 .. Len(calls) : \A i \in 2 .. Len(calls[s]) :
    IsRouterFrame(s, i) =>
      LET f == calls[s][i]
          message == Peel(f.body, privateKey[RouterAt(f.at)])
      IN  /\ f.pc \in {"recv", "decrypted"} => Len(calls[s]) = i
          /\ f.pc \in {"await", "done"} =>
               /\ Len(calls[s]) > i
               /\ calls[s][i + 1].body = SliceFrom(message, 10)
               /\ calls[s][i + 1].at = ParseInt(Slice(message, 0, 10))
               /\ f.out = SliceFrom(message, 10)
               /\ f.to = ParseInt(Slice(message, 0, 10))
          /\ f.pc # "threw"

\* C17 witness: one router has forwarded both messages while neither forward
\* was answered, and its fields are those of the first message, recorded last
C17_Witness ==
  /\ Len(calls) = 2
  /\ \E n \in RouterIds : \E i, j \in 2 .. 4 :
       /\ HasRecorded(1, i) /\ calls[1][i].at = RouterPort(n) /\ calls[1][i].pc = "await"
       /\ HasRecorded(2, j) /\ calls[2][j].at = RouterPort(n) /\ calls[2][j].pc = "await"
       /\ calls[1][i + 1].pc = "recv" /\ calls[2][j + 1].pc = "recv"
       /\ calls[1][i + 1].body # calls[2][j + 1].body
       /\ FieldsOf(n, 1, i)

\* a step of the request that user /sendMessage call s serves: the call is
\* made, or one of its handlers moves
Sending(s) ==
  /\ IsUserPort(calls'[s][1].at)
  /\ (s > Len(calls) \/ calls'[s] # calls[s])
\* router n is a node of the circuit call s has chosen so far
OnPath(s, n) ==
  \E j \in 1 .. Len(calls'[s][1].circuit) :
    /\ calls'[s][1].circuit[j] # Undefined
    /\ calls'[s][1].circuit[j].nodeId = n
\* no step of the send changes a field of a router off its circuit
OffPathRoutersKept(s) ==
  \A n \in RouterIds :
    ~OnPath(s, n) =>
      /\ lastReceivedEncryptedMessage'[n] = lastReceivedEncryptedMessage[n]
      /\ lastReceivedDecryptedMessage'[n] = lastReceivedDecryptedMessage[n]
      /\ lastMessageSource'[n] = lastMessageSource[n]
      /\ lastMessageDestination'[n] = lastMessageDestination[n]
\* nor the inbox of a user other than its destination
OtherInboxesKept(s) ==
  \A u \in UserIds :
    u # calls'[s][1].destinationUserId =>
      lastReceivedMessages'[u] = lastReceivedMessages[u]
\* nor lastSentMessage or lastCircuit of a user other than its sender
OtherSendersKept(s) ==
  \A u \in UserIds :
    calls'[s][1].at # UserPort(u) =>
      /\ lastSentMessage'[u] = lastSentMessage[u]
      /\ lastCircuit'[u] = lastCircuit[u]
\* the inbox of its sender
SenderInboxKept(s) ==
  \A u \in UserIds :
    calls'[s][1].at = UserPort(u) =>
      lastReceivedMessages'[u] = lastReceivedMessages[u]

\* C18 as stated: a send from user A to user B changes no last-message field
\* of a router that is not in its circuit, the inbox of no user other than B,
\* and not the registry's list of nodes; and at the sender nothing but
\* lastSentMessage and lastCircuit, so the sender's inbox is left as it was.
C18_SenderInboxUntouched ==
  [][\A s \in 1 .. Len(calls') :
       Sending(s) =>
         /\ OffPathRoutersKept(s)
         /\ OtherInboxesKept(s)
         /\ nodes' = nodes
         /\ OtherSendersKept(s)
         /\ SenderInboxKept(s)]_vars

\* C18 amended: as above, but the sender's inbox is left as it was only when
\* the sender is not itself the destination B; a user that sends to itself
\* has the message delivered to its own inbox.
C18_PathOnly ==
  [][\A s \in 1 .. Len(calls') :
       Sending(s) =>
         /\ OffPathRoutersKept(s)
         /\ OtherInboxesKept(s)
         /\ nodes' = nodes
         /\ OtherSendersKept(s)
         /\ (calls'[s][1].at # UserPort(calls'[s][1].destinationUserId)
               => SenderInboxKept(s))]_vars

\* C18 witness: user 0 has sent to user 1 over a circuit that leaves a
\* launched router out; the message is in user 1's inbox, the routers of the
\* circuit have recorded their layers, and the router left out, the sender's
\* inbox and user 1's lastSentMessage and lastCircuit are as they began
C18_Witness ==
  /\ Len(calls) = 1
  /\ calls[1][1].at = UserPort(0)
  /\ calls[1][1].destinationUserId = 1
  /\ lastReceivedMessages[1] = calls[1][1].body
  /\ lastReceivedMessages[0] = Null
  /\ lastSentMessage[0] = calls[1][1].body
  /\ lastCircuit[0] = calls[1][1].circuit
  /\ lastSentMessage[1] = Null
  /\ lastCircuit[1] = <<>>
  /\ \E n \in RouterIds :
       /\ privateKey[n] # Null
       /\ \A j \in 1 .. Len(calls[1][1].circuit) : calls[1][1].circuit[j].nodeId # n
       /\ lastReceivedEncryptedMessage[n] = Null
       /\ lastReceivedDecryptedMessage[n] = Null
       /\ lastMessageSource[n] = NullNum
       /\ lastMessageDestination[n] = NullNum
  /\ \A j \in 1 .. Len(calls[1][1].circuit) :
       lastReceivedEncryptedMessage[calls[1][1].circuit[j].nodeId] # Null
====
